---- MODULE Spec2Model ----
(***************************************************************************)
(* Authentication / authorization flow of the FastAPI book service:        *)
(* signup, login, the bearer-token gate (TokenBearer and its subclasses,   *)
(* RoleChecker), refresh and logout, over the credential store (users      *)
(* table), the issued JWTs and the Redis revocation registry.              *)
(*                                                                         *)
(* Every request handler is a coroutine; it is modelled as a sequence of   *)
(* steps cut at its awaited store calls, so that handlers of different     *)
(* requests interleave exactly where the event loop can switch.            *)
(* Time is a clock of sub-second ticks: datetime.now().timestamp() is a    *)
(* float, int(...) truncates it to whole seconds, Redis counts a key's     *)
(* time-to-live from the instant the SET is executed.                      *)
(***************************************************************************)
EXTENDS Integers, Sequences, FiniteSets, TLC

\* ------------------------------------------------------------------ bounds
TicksPerSec == 2          \* clock resolution: ticks per second
MaxTick     == 1          \* the clock advances tick by tick up to here
MaxUsers    == 2          \* rows the users table may hold
MaxLogins   == 1          \* successful logins (each issues two tokens)
MaxBooks    == 1          \* books ever created
MaxReviews  == 1          \* reviews ever created

\* ------------------------------------------------------- program constants
AccessExpiry   == 900     \* timedelta(minutes=15), in seconds
RefreshExpiry  == 604800  \* timedelta(days=7), in seconds
BcryptMaxBytes == 72      \* hash_password limit

JWT_SECRET_KEY == "config.JWT_SECRET_KEY"
OtherKey       == "not-the-server-key"

Reqs      == {"r1", "r2"}                \* concurrently served requests
Emails    == {"a@b.com"}
Usernames == {"alice"}
\* a password is known by its text, its length in characters and in UTF-8 bytes
Passwords == { [text |-> "pw", chars |-> 2, bytes |-> 2],
               [text |-> "pw-one", chars |-> 8, bytes |-> 8],
               [text |-> "pw-wide", chars |-> 30, bytes |-> 90],
               [text |-> "pw-long", chars |-> 80, bytes |-> 80] }

VARIABLES
    now,        \* wall clock, in ticks
    users,      \* users table: set of rows
    tokens,     \* sequence of the payloads signed so far; jti = position
    redis,      \* revocation registry: jti -> tick at which the key expires
    req,        \* per request: handler position, inputs, locals, response
    loggedOut,  \* history: jtis whose logout request has returned 200
    blacklisted, \* history: jtis for which black_list_jti, called strictly
                 \* before the token's exp, has returned
    books,      \* books table: row i has uid i; a deleted row keeps its place
    reviews,    \* reviews table, kept the same way
    redis_client \* db.redis._redis: "None" until init_redis has run, then
                 \* a client whose server is "connected" or "down"

vars == <<now, users, tokens, redis, req, loggedOut, blacklisted, books,
          reviews, redis_client>>

\* --------------------------------------------------------------- time
\* int(datetime.now(timezone.utc).timestamp())
NowSec(t) == t \div TicksPerSec

\* ---------------------------------------------------------------- uuids
\* a uuid.UUID object, and the text str() makes of it; Python never finds the
\* two equal
UUID(n)   == [type |-> "UUID", hex |-> n]
py_str(u) == [type |-> "str", hex |-> u.hex]

\* the database casts a text parameter that is compared with a uuid column
pg_uuid(s) == [type |-> "UUID", hex |-> s.hex]

\* ------------------------------------------------------------ responses
HTTP(code, msg) == [status |-> code, detail |-> msg]
Pass            == HTTP(0, "")
ServerError     == HTTP(500, "Internal Server Error")
\* the answer to a request body that fails its pydantic schema
Unprocessable   == HTTP(422, "validation error")

\* ------------------------------------------------------------- tokens
NoUserData == [uid |-> py_str(UUID(0)), email |-> "", username |-> ""]
NoPayload  == [user |-> NoUserData, exp |-> 0, jti |-> 0, refresh |-> FALSE]
NoToken    == [payload |-> NoPayload, key |-> ""]

\* jwt.encode(payload, key, "HS256"): the payload together with its signature
JwtEncode(payload, key) == [payload |-> payload, key |-> key]

\* the refresh argument is dropped: every token is an access token
create_tokens_access_only(user_data, expiry, refresh, t, jti) ==
    JwtEncode([user    |-> user_data,
               exp     |-> NowSec(t) + expiry,
               jti     |-> jti,
               refresh |-> FALSE], JWT_SECRET_KEY)

\* create_tokens: exp is truncated to whole seconds, jti is fresh
create_tokens(user_data, expiry, refresh, t, jti) ==
    JwtEncode([user    |-> user_data,
               exp     |-> NowSec(t) + expiry,
               jti     |-> jti,
               refresh |-> refresh], JWT_SECRET_KEY)

\* the signature is verified, the exp claim is not
decode_token_no_exp(token, t) ==
    IF token.key # JWT_SECRET_KEY THEN NoPayload ELSE token.payload

\* a token still accepted at the instant of its exp
decode_token_inclusive(token, t) ==
    IF token.key # JWT_SECRET_KEY THEN NoPayload
    ELSE IF t > token.payload.exp * TicksPerSec THEN NoPayload
    ELSE token.payload

\* decode_token: None (NoPayload) on a bad signature or when now >= exp
decode_token(token, t) ==
    IF token.key # JWT_SECRET_KEY THEN NoPayload
    ELSE IF t >= token.payload.exp * TicksPerSec THEN NoPayload
    ELSE token.payload

\* ------------------------------------------------------------ registry
\* the clock rounded up instead of truncated
black_list_ttl_ceil(expiry, t) ==
    expiry - ((t + TicksPerSec - 1) \div TicksPerSec)

\* ttl = expiry - int(now)
black_list_ttl(expiry, t) == expiry - NowSec(t)

\* ttl = 0 taken for a live token
black_list_skips_negative(ttl) == ttl < 0

\* if ttl <= 0: return
black_list_skips(ttl) == ttl <= 0

\* the SET extended to the token issued next to it (the paired refresh token)
redis_set_pair(store, jti, ttl, t) ==
    [k \in (DOMAIN store) \cup {jti, jti + 1} |->
        IF k \in {jti, jti + 1} THEN t + ttl * TicksPerSec ELSE store[k]]

\* redis.set(name=jti, value="revoked", ex=ttl), executed at tick t
redis_set(store, jti, ttl, t) ==
    [k \in (DOMAIN store) \cup {jti} |->
        IF k = jti THEN t + ttl * TicksPerSec ELSE store[k]]

\* redis.exists(jti): the key was set and has not expired
redis_exists(store, jti, t) ==
    IF jti \in DOMAIN store /\ t < store[jti] THEN 1 ELSE 0

\* a failure to reach the registry is swallowed and the call goes on
redis_raises_swallowed(client) == FALSE

\* get_redis() raises RuntimeError while _redis is None; a command sent to
\* a server that cannot be reached raises ConnectionError
redis_raises(client) == client # "connected"

\* the registry's answer ignored: no jti is ever reported revoked
is_revoked_never(store, jti, t) == redis_exists(store, jti, t) < 0

is_revoked(store, jti, t) == redis_exists(store, jti, t) = 1

\* ---------------------------------------------------------------- gate
\* the test of the refresh flag negated
AccessTokenBearer_verify_token_negated(payload) ==
    IF ~payload.refresh THEN HTTP(400, "access token required") ELSE Pass

AccessTokenBearer_verify_token(payload) ==
    IF payload.refresh THEN HTTP(400, "access token required") ELSE Pass

RefreshTokenBearer_verify_token(payload) ==
    IF ~payload.refresh THEN HTTP(400, "refresh token requried") ELSE Pass

verify_token(bearer, payload) ==
    IF bearer = "access" THEN AccessTokenBearer_verify_token(payload)
    ELSE RefreshTokenBearer_verify_token(payload)

\* the decode failure answered with the status of a revoked token
TokenBearer_decoded_forbidden(payload) ==
    IF payload = NoPayload THEN HTTP(403, "invalid token") ELSE Pass

\* TokenBearer.__call__ after decode_token: None -> 401
TokenBearer_decoded(payload) ==
    IF payload = NoPayload THEN HTTP(401, "invalid token") ELSE Pass

\* the registry's answer is not looked at
TokenBearer_checked_kind_only(bearer, payload, revoked) ==
    verify_token(bearer, payload)

\* verify_token runs before the registry's answer is looked at
TokenBearer_checked_kind_first(bearer, payload, revoked) ==
    IF verify_token(bearer, payload) # Pass THEN verify_token(bearer, payload)
    ELSE IF revoked THEN HTTP(403, "token revoked login again")
    ELSE Pass

\* TokenBearer.__call__ after the registry read: revoked -> 403, then the
\* subclass' verify_token
TokenBearer_checked(bearer, payload, revoked) ==
    IF revoked THEN HTTP(403, "token revoked login again")
    ELSE verify_token(bearer, payload)

\* the bearer class each route depends on
BearerOf(op) == IF op = "refresh" THEN "refresh" ELSE "access"

\* the membership test negated
RoleChecker_negated(allowed_roles, role) ==
    IF role \in allowed_roles THEN HTTP(403, "you are not authorized")
    ELSE Pass

\* RoleChecker.__call__
RoleChecker(allowed_roles, role) ==
    IF role \notin allowed_roles THEN HTTP(403, "you are not authorized")
    ELSE Pass

\* ------------------------------------------------------------ passwords
NoHash == [scheme |-> "", of |-> ""]
pwd_context_hash(password) == [scheme |-> "bcrypt", of |-> password.text]
pwd_context_verify(password, hashed) == hashed = pwd_context_hash(password)

\* UserCreate.password: Field(min_length=8, max_length=30), in characters
UserCreate_valid(password) == password.chars >= 8 /\ password.chars <= 30

\* UserLogin.password: Field(min_length=8)
UserLogin_valid(password) == password.chars >= 8

\* the limit applied to the number of characters
hash_password_raises_chars(password) == password.chars > BcryptMaxBytes

\* hash_password raises ValueError above 72 bytes
hash_password_raises(password) == password.bytes > BcryptMaxBytes

\* ---------------------------------------------------------- users table
NoUser == [uid |-> UUID(0), username |-> "", email |-> "",
           hashed_password |-> NoHash, role |-> ""]

UsersByEmail(email) == {u \in users : u.email = email}
UsersByUid(uid)     == {u \in users : u.uid = pg_uuid(uid)}

\* --------------------------------------------------------- request slots
NoPassword == [text |-> "", chars |-> 0, bytes |-> 0]
Idle == [pc |-> "idle", op |-> "", email |-> "", username |-> "", role |-> "",
         target |-> 0,
         password |-> NoPassword, token |-> NoToken, hasCreds |-> FALSE,
         payload |-> NoPayload, user |-> NoUser, ttl |-> 0,
         revoked |-> FALSE, calledBeforeExp |-> FALSE, expiredAtCall |-> FALSE,
         resp |-> Pass, access_token |-> NoToken, refresh_token |-> NoToken]

\* a response stays in its slot until it has been delivered to the client;
\* delivery is the very next step, so nothing else runs in between
Quiet == \A r \in Reqs : req[r].pc # "done"

Free(r) == Quiet /\ req[r].pc = "idle"

At(r, pc) == Quiet /\ req[r].pc = pc

\* the handler of request r, called with these inputs, starts running
Begin(r, op, inputs) ==
    [inputs EXCEPT !.pc = "run", !.op = op]

\* the response is sent
Respond(q, response) == [q EXCEPT !.pc = "done", !.resp = response]

Init ==
    /\ now = 0
    /\ users = {}
    /\ tokens = <<>>
    /\ redis = <<>>
    /\ req = [r \in Reqs |-> Idle]
    /\ loggedOut = {}
    /\ blacklisted = {}
    /\ books = <<>>
    /\ reviews = <<>>
    /\ redis_client = "connected"

\* ------------------------------------------------------------- clients
\* what a client can put in the Authorization header: a token some login
\* returned, or a token signed with a key that is not the server's
IssuedTokens == {JwtEncode(tokens[i], JWT_SECRET_KEY) : i \in DOMAIN tokens}
ForgedToken  == JwtEncode(NoPayload, OtherKey)
\* a string that is not a JWT at all: jwt.decode raises DecodeError
MalformedToken == [payload |-> NoPayload, key |-> "not a JWT"]
Presentable  == IssuedTokens \cup {ForgedToken, MalformedToken}

\* a signup body may carry keys the schema does not declare: here a "role"
\* ("" when the body has none)
BodyRoles == {"", "admin"}

\* request bodies and headers as the routes receive them
SignupInputs ==
    {[Idle EXCEPT !.email = e, !.username = n, !.password = p, !.role = ro] :
        e \in Emails, n \in Usernames, p \in Passwords, ro \in BodyRoles}
LoginInputs ==
    {[Idle EXCEPT !.email = e, !.password = p] : e \in Emails, p \in Passwords}
BearerInputs ==
    {[Idle EXCEPT !.token = tk, !.hasCreds = TRUE] : tk \in Presentable}
    \cup {Idle}

\* ---------------------------------------------------------------- signup
\* POST /auth/signup: the body is validated against UserCreate (422), then
\* the handler runs up to the return of auth_service.user_exists(email):
\* 403 when a row has the email. get_user_by_email uses one_or_none(),
\* which raises when several rows have it.
signup_user_exists(q) ==
    LET rows == UsersByEmail(q.email) IN
      IF Cardinality(rows) > 1 THEN Respond(q, ServerError)
      ELSE IF rows # {}
           THEN Respond(q, HTTP(403, "user with email already exists"))
           ELSE [q EXCEPT !.pc = "signup_create"]

Signup(r) ==
    /\ Free(r)
    /\ \E in \in SignupInputs :
          req' = [req EXCEPT ![r] =
                    IF ~UserCreate_valid(in.password)
                    THEN Respond(Begin(r, "signup", in), Unprocessable)
                    ELSE signup_user_exists(Begin(r, "signup", in))]
    /\ UNCHANGED <<redis_client, now, users, tokens, redis, loggedOut, blacklisted,
                 books, reviews>>

\* the schema keeps a "role" key of the body as a field of its own
UserCreate_model_dump_with_role(q) ==
    IF q.role = "" THEN [username |-> q.username, email |-> q.email]
    ELSE [username |-> q.username, email |-> q.email, role |-> q.role]

\* user_data.model_dump(exclude="password"): the fields UserCreate declares;
\* pydantic drops every other key of the body
UserCreate_model_dump(q) == [username |-> q.username, email |-> q.email]

\* the row create_user inserts, User(**user_data_dict): a column the dict
\* does not name gets the server default of the users table (uid, role)
create_user(q, uid) ==
    LET user_data_dict == UserCreate_model_dump(q) IN
      [uid |-> uid, username |-> user_data_dict.username,
       email |-> user_data_dict.email,
       hashed_password |-> pwd_context_hash(q.password),
       role |-> IF "role" \in DOMAIN user_data_dict
                THEN user_data_dict.role ELSE "user"]

\* signup: auth_service.create_user -> hash, insert, commit, refresh
SignupCreateUser(r) ==
    /\ At(r, "signup_create")
    /\ IF hash_password_raises(req[r].password)
       THEN /\ req' = [req EXCEPT ![r] = Respond(req[r],
                   HTTP(400, "password too long for bcrypt (max 72 bytes)"))]
            /\ UNCHANGED users
       ELSE /\ Cardinality(users) < MaxUsers
            /\ users' = users \cup {create_user(req[r], UUID(Cardinality(users) + 1))}
            /\ req' = [req EXCEPT ![r] = Respond(req[r], HTTP(201, "created"))]
    /\ UNCHANGED <<redis_client, now, tokens, redis, loggedOut, blacklisted,
                 books, reviews>>

\* ----------------------------------------------------------------- login
\* auth_service.verify_login: None unless the row exists and the password
\* matches; login answers None with 401 "invalid credentials"
verify_login(q) ==
    LET rows == UsersByEmail(q.email) IN
      IF Cardinality(rows) > 1 THEN Respond(q, ServerError)
      ELSE IF rows = {} THEN Respond(q, HTTP(401, "invalid credentials"))
      ELSE LET user == CHOOSE u \in rows : TRUE IN
           IF pwd_context_verify(q.password, user.hashed_password)
           THEN [q EXCEPT !.pc = "login_issue", !.user = user]
           ELSE Respond(q, HTTP(401, "invalid credentials"))

Login(r) ==
    /\ Free(r)
    /\ \E in \in LoginInputs :
          req' = [req EXCEPT ![r] =
                    IF ~UserLogin_valid(in.password)
                    THEN Respond(Begin(r, "login", in), Unprocessable)
                    ELSE verify_login(Begin(r, "login", in))]
    /\ UNCHANGED <<redis_client, now, users, tokens, redis, loggedOut, blacklisted,
                 books, reviews>>

\* login: the two create_tokens calls and the response
LoginIssueTokens(r) ==
    /\ At(r, "login_issue")
    /\ Len(tokens) + 2 <= 2 * MaxLogins
    /\ now <= MaxTick
    /\ LET user_data == [uid |-> py_str(req[r].user.uid),
                         email |-> req[r].user.email,
                         username |-> req[r].user.username]
           access  == create_tokens(user_data, AccessExpiry, FALSE, now,
                                    Len(tokens) + 1)
           refresh == create_tokens(user_data, RefreshExpiry, TRUE, now,
                                    Len(tokens) + 2) IN
         /\ tokens' = tokens \o <<access.payload, refresh.payload>>
         /\ req' = [req EXCEPT ![r] =
                      [Respond(req[r], HTTP(200, "login successful"))
                          EXCEPT !.access_token = access,
                                 !.refresh_token = refresh]]
    /\ UNCHANGED <<redis_client, now, users, redis, loggedOut, blacklisted,
                 books, reviews>>

\* ------------------------------------------------------------------ gate
\* the header is handed to decode_token before it is tested for presence
TokenBearer_call_decodes_first(q, t, noCredsCode) ==
    LET payload == decode_token(q.token, t)
        verdict == TokenBearer_decoded(payload)
        late    == t >= q.token.payload.exp * TicksPerSec IN
      IF verdict # Pass
      THEN Respond([q EXCEPT !.expiredAtCall = late], verdict)
      ELSE IF ~q.hasCreds
      THEN Respond(q, HTTP(noCredsCode, "Not authenticated"))
      ELSE [q EXCEPT !.pc = "gate_revoked", !.payload = payload,
                     !.expiredAtCall = late]

\* TokenBearer.__call__ up to the registry read: HTTPBearer extracts the
\* credentials (auto_error answers 403 or 401 "Not authenticated",
\* depending on the FastAPI release), then decode_token
TokenBearer_call(q, t, noCredsCode) ==
    IF ~q.hasCreds THEN Respond(q, HTTP(noCredsCode, "Not authenticated"))
    ELSE LET payload == decode_token(q.token, t)
             verdict == TokenBearer_decoded(payload)
             \* history: the token was presented at or after its exp
             late    == t >= q.token.payload.exp * TicksPerSec IN
           IF verdict # Pass
           THEN Respond([q EXCEPT !.expiredAtCall = late], verdict)
           ELSE [q EXCEPT !.pc = "gate_revoked", !.payload = payload,
                          !.expiredAtCall = late]

\* a request to a route behind the gate: GET /reviews/ (role-gated),
\* GET /auth/logout, GET /auth/refresh_token
Gate(r) ==
    /\ Free(r)
    /\ \E o \in {"get_reviews", "logout", "refresh"}, in \in BearerInputs :
          \E code \in IF in.hasCreds THEN {401} ELSE {401, 403} :
          req' = [req EXCEPT ![r] = TokenBearer_call(Begin(r, o, in), now, code)]
    /\ UNCHANGED <<redis_client, now, users, tokens, redis, loggedOut, blacklisted,
                 books, reviews>>

\* where each route goes on once its bearer dependency returned the payload
AfterGate(op) ==
    CASE op = "get_reviews" -> "curr_user"
      [] op = "logout"      -> "logout_ttl"
      [] op = "refresh"     -> "refresh_body"
      [] op \in {"create_book", "update_book", "delete_book",
                 "create_review"} -> op
      [] op \in {"update_review", "delete_review"} -> "review_role"

\* the read of a revoked jti renews its key
GateRevoked_touch(r) ==
    /\ At(r, "gate_revoked")
    /\ LET revoked == is_revoked(redis, req[r].payload.jti, now)
           verdict == TokenBearer_checked(BearerOf(req[r].op), req[r].payload,
                                          revoked) IN
         /\ req' = [req EXCEPT ![r] =
                      IF redis_raises(redis_client)
                      THEN Respond(req[r], ServerError)
                      ELSE IF verdict # Pass
                      THEN Respond([req[r] EXCEPT !.revoked = revoked], verdict)
                      ELSE [req[r] EXCEPT !.pc = AfterGate(req[r].op),
                                          !.revoked = revoked]]
         /\ redis' = IF revoked /\ ~redis_raises(redis_client)
                     THEN redis_set(redis, req[r].payload.jti,
                              black_list_ttl(req[r].payload.exp, now) + 1, now)
                     ELSE redis
    /\ UNCHANGED <<redis_client, now, users, tokens, loggedOut, blacklisted,
                 books, reviews>>

\* TokenBearer.__call__, from the registry read on: await is_revoked(jti),
\* then verify_token; an exception of the registry call leaves the handler
\* (500)
GateRevoked(r) ==
    /\ At(r, "gate_revoked")
    /\ LET revoked == is_revoked(redis, req[r].payload.jti, now)
           verdict == TokenBearer_checked(BearerOf(req[r].op), req[r].payload,
                                          revoked) IN
          req' = [req EXCEPT ![r] =
                    IF redis_raises(redis_client)
                    THEN Respond(req[r], ServerError)
                    ELSE IF verdict # Pass
                    THEN Respond([req[r] EXCEPT !.revoked = revoked], verdict)
                    ELSE [req[r] EXCEPT !.pc = AfterGate(req[r].op),
                                        !.revoked = revoked]]
    /\ UNCHANGED <<redis_client, now, users, tokens, redis, loggedOut, blacklisted,
                 books, reviews>>

\* get_curr_user + RoleChecker(["user", "admin"]) + get_reviews: the row of
\* the payload's uid is fetched, its role checked, the route body runs
GetReviews(r) ==
    /\ At(r, "curr_user")
    /\ LET rows == UsersByUid(req[r].payload.user.uid) IN
          req' = [req EXCEPT ![r] =
             IF rows = {} THEN Respond(req[r], ServerError)   \* None.role
             ELSE LET user == CHOOSE u \in rows : TRUE
                      verdict == RoleChecker({"user", "admin"}, user.role) IN
                  IF verdict # Pass THEN Respond(req[r], verdict)
                  ELSE Respond(req[r], HTTP(200, "reviews"))]
    /\ UNCHANGED <<redis_client, now, users, tokens, redis, loggedOut, blacklisted,
                 books, reviews>>

\* ---------------------------------------------------------------- logout
\* logout -> black_list_jti(payload["jti"], payload["exp"]): the ttl is
\* computed from the clock; ttl <= 0 returns without touching Redis
LogoutTtl(r) ==
    /\ At(r, "logout_ttl")
    /\ LET jti == req[r].payload.jti
           ttl == black_list_ttl(req[r].payload.exp, now)
           before == now < req[r].payload.exp * TicksPerSec IN
          IF black_list_skips(ttl)
          THEN /\ req' = [req EXCEPT ![r] =
                      Respond([req[r] EXCEPT !.ttl = ttl,
                                             !.calledBeforeExp = before],
                              HTTP(200, "logged out successfully"))]
               /\ loggedOut' = loggedOut \cup {jti}
               /\ blacklisted' = IF before THEN blacklisted \cup {jti}
                                 ELSE blacklisted
          ELSE /\ req' = [req EXCEPT ![r].pc = "logout_set", ![r].ttl = ttl,
                                     ![r].calledBeforeExp = before]
               /\ UNCHANGED <<loggedOut, blacklisted>>
    /\ UNCHANGED <<redis_client, now, users, tokens, redis,
                 books, reviews>>

\* black_list_jti: get_redis(), await redis.set(name=jti, value="revoked",
\* ex=ttl); then logout returns 200
LogoutSet(r) ==
    /\ At(r, "logout_set")
    /\ IF redis_raises(redis_client)
       THEN /\ req' = [req EXCEPT ![r] = Respond(req[r], ServerError)]
            /\ UNCHANGED <<redis, loggedOut, blacklisted>>
       ELSE LET jti == req[r].payload.jti IN
            /\ redis' = redis_set(redis, jti, req[r].ttl, now)
            /\ loggedOut' = loggedOut \cup {jti}
            /\ blacklisted' = IF req[r].calledBeforeExp
                              THEN blacklisted \cup {jti} ELSE blacklisted
            /\ req' = [req EXCEPT ![r] =
                         Respond(req[r], HTTP(200, "logged out successfully"))]
    /\ UNCHANGED <<redis_client, now, users, tokens,
                 books, reviews>>

\* --------------------------------------------------------------- refresh
\* refresh: exp = payload["expiry"]; the 403 "token expired" test; a new
\* access token from payload["user"]
RefreshBody(r) ==
    /\ At(r, "refresh_body")
    /\ IF "expiry" \notin DOMAIN req[r].payload
       THEN /\ req' = [req EXCEPT ![r] = Respond(req[r], ServerError)]  \* KeyError
            /\ UNCHANGED tokens
       ELSE IF NowSec(now) >= req[r].payload.expiry
       THEN /\ req' = [req EXCEPT ![r] =
                          Respond(req[r], HTTP(403, "token expired"))]
            /\ UNCHANGED tokens
       ELSE /\ Len(tokens) + 1 <= 2 * MaxLogins + 1
            /\ LET access == create_tokens(req[r].payload.user, AccessExpiry,
                                           FALSE, now, Len(tokens) + 1) IN
                 /\ tokens' = Append(tokens, access.payload)
                 /\ req' = [req EXCEPT ![r] =
                              [Respond(req[r], HTTP(200, "refreshed"))
                                  EXCEPT !.access_token = access]]
    /\ UNCHANGED <<redis_client, now, users, redis, loggedOut, blacklisted,
                 books, reviews>>

\* -------------------------------------------------------------- delivery
\* the client has the response; the request is over
Deliver(r) ==
    /\ req[r].pc = "done"
    /\ req' = [req EXCEPT ![r] = Idle]
    /\ UNCHANGED <<redis_client, now, users, tokens, redis, loggedOut, blacklisted,
                 books, reviews>>

\* ------------------------------------------------------------------ time
\* instants at which a token's validity changes: its exp and the tick just
\* before it.  A key of the registry never expires before its token's exp
\* (its ttl is counted from a clock read no later than the SET), so every
\* ordering of "token expired" and "key gone" is met at these instants: the
\* key alive at an access token's exp, and gone by a refresh token's exp
Instants ==
    UNION { {tokens[i].exp * TicksPerSec - 1, tokens[i].exp * TicksPerSec}
             : i \in DOMAIN tokens }

\* the clock moves on: by one tick early on, or to the next instant of note
Advance ==
    /\ Quiet
    /\ \E t \in ({now + 1} \cap (0..MaxTick)) \cup {i \in Instants : i > now} :
          now' = t
    /\ UNCHANGED <<redis_client, users, tokens, redis, req, loggedOut, blacklisted,
                 books, reviews>>

\* ---------------------------------------------------------- specification
Handler(r) ==
    \/ Signup(r)
    \/ SignupCreateUser(r)
    \/ Login(r)
    \/ LoginIssueTokens(r)
    \/ Gate(r)
    \/ GateRevoked(r)
    \/ GetReviews(r)
    \/ LogoutTtl(r)
    \/ LogoutSet(r)
    \/ RefreshBody(r)
    \/ Deliver(r)

Next == Advance \/ \E r \in Reqs : Handler(r)

Spec == Init /\ [][Next]_vars

\* one client, one request at a time: the end-to-end scenarios
SeqNext == Advance \/ Handler("r1")

SeqSpec == Init /\ [][SeqNext]_vars

\* ------------------------------------------------- any store contents
\* The users table is an external database.  No route deletes a row or
\* writes the role column, but the table is not the server's alone: when a
\* request arrives, the row of an account that logged in earlier may carry
\* any role, or be gone.  "guest" stands for every role that is in no
\* route's allowed list.
Roles == {"user", "admin", "guest"}

\* an account older than everything signup creates here
SeededUid == UUID(MaxUsers + 1)

SeededRow(role) ==
    [create_user([Idle EXCEPT !.email = "a@b.com", !.username = "alice",
                              !.password = [text |-> "pw-one", chars |-> 8,
                                            bytes |-> 8]],
                 SeededUid) EXCEPT !.role = role]

\* the two tokens its login at time 0 returned
SeededTokens ==
    LET user_data == [uid |-> py_str(SeededUid), email |-> "a@b.com",
                      username |-> "alice"] IN
      << create_tokens(user_data, AccessExpiry, FALSE, 0, 1).payload,
         create_tokens(user_data, RefreshExpiry, TRUE, 0, 2).payload >>

StoreInit ==
    /\ now = 0
    /\ redis = <<>>
    /\ req = [r \in Reqs |-> Idle]
    /\ loggedOut = {}
    /\ blacklisted = {}
    /\ books = <<>>
    /\ reviews = <<>>
    /\ redis_client = "connected"
    /\ \/ users = {} /\ tokens = <<>>
       \/ /\ tokens = SeededTokens
          /\ users \in {{}} \cup {{SeededRow(role)} : role \in Roles}

StoreSpec == StoreInit /\ [][SeqNext]_vars

\* ------------------------------------------------------ books and reviews
\* Row i of a table has uid i.  A deleted row leaves Gone behind, so that a
\* uid is never given twice (the uids are gen_random_uuid()).
GoneBook   == [present |-> FALSE, user_uid |-> UUID(0), title |-> ""]
GoneReview == [present |-> FALSE, book_uid |-> 0, user_uid |-> UUID(0),
               review_text |-> ""]
NoBook     == GoneBook

\* services.get_book_by_id: select(Book).where(Book.uid == book_id)
get_book_by_id(book_id) ==
    IF book_id \in DOMAIN books /\ books[book_id].present
    THEN books[book_id] ELSE NoBook

\* update_book's test: book.user_uid != payload["user"]["uid"], a UUID
\* against a str
update_book_forbidden(book, payload) == book.user_uid # payload.user.uid

\* delete_book's test: str(book.user_uid) != payload["user"]["uid"]
delete_book_forbidden(book, payload) ==
    py_str(book.user_uid) # payload.user.uid

\* the reviews that still point at a book
ReviewsOfBook(book_id) ==
    {i \in DOMAIN reviews : reviews[i].present /\ reviews[i].book_uid = book_id}

\* the filter on the owner left out
select_review_any_owner(review_uid, user_uid) ==
    {i \in DOMAIN reviews : reviews[i].present /\ i = review_uid}

\* select(Review).where(Review.uid == review_uid,
\*                      Review.user_uid == user_uid)
select_review(review_uid, user_uid) ==
    {i \in DOMAIN reviews :
        /\ reviews[i].present /\ i = review_uid
        /\ reviews[i].user_uid = pg_uuid(user_uid)}

ResourceOps == {"create_book", "update_book", "delete_book",
                "create_review", "update_review", "delete_review"}

\* the uid in the path: of a book (of the book to review, for create_review)
\* or of a review; create_book has none
Targets(op) ==
    CASE op = "create_book" -> {0}
      [] op \in {"update_book", "delete_book", "create_review"}
                              -> 1 .. MaxBooks
      [] op \in {"update_review", "delete_review"} -> 1 .. MaxReviews

\* a request to a books or reviews route that changes something; each of
\* them depends on AccessTokenBearer(), the two review routes on
\* RoleChecker(["user", "admin"]) before it
ResourceGate(r) ==
    /\ Free(r)
    /\ \E o \in ResourceOps, in \in BearerInputs :
          \E k \in Targets(o), code \in IF in.hasCreds THEN {401} ELSE {401, 403} :
             req' = [req EXCEPT ![r] =
                       TokenBearer_call(Begin(r, o, [in EXCEPT !.target = k]),
                                        now, code)]
    /\ UNCHANGED <<redis_client, now, users, tokens, redis, loggedOut, blacklisted,
                   books, reviews>>

\* update_review, delete_review: get_curr_user has the row, RoleChecker
\* tests its role; then the route's own AccessTokenBearer() starts and
\* decodes the token a second time
ReviewRole(r) ==
    /\ At(r, "review_role")
    /\ LET rows == UsersByUid(req[r].payload.user.uid) IN
          req' = [req EXCEPT ![r] =
             IF rows = {} THEN Respond(req[r], ServerError)   \* None.role
             ELSE LET user == CHOOSE u \in rows : TRUE
                      verdict == RoleChecker({"user", "admin"}, user.role)
                      again == TokenBearer_call(req[r], now, 401) IN
                  IF verdict # Pass THEN Respond(req[r], verdict)
                  ELSE IF again.pc = "done" THEN again
                  ELSE [again EXCEPT !.pc = "gate2_revoked"]]
    /\ UNCHANGED <<redis_client, now, users, tokens, redis, loggedOut, blacklisted,
                   books, reviews>>

\* the second TokenBearer.__call__, from its registry read on
ReviewGate2(r) ==
    /\ At(r, "gate2_revoked")
    /\ LET revoked == is_revoked(redis, req[r].payload.jti, now)
           verdict == TokenBearer_checked("access", req[r].payload, revoked) IN
          req' = [req EXCEPT ![r] =
                    IF redis_raises(redis_client)
                    THEN Respond(req[r], ServerError)
                    ELSE IF verdict # Pass
                    THEN Respond([req[r] EXCEPT !.revoked = revoked], verdict)
                    ELSE [req[r] EXCEPT !.pc = req[r].op,
                                        !.revoked = revoked]]
    /\ UNCHANGED <<redis_client, now, users, tokens, redis, loggedOut, blacklisted,
                   books, reviews>>

\* POST /books/: services.create_book, the owner is the token's uid
CreateBook(r) ==
    /\ At(r, "create_book")
    /\ Len(books) < MaxBooks
    /\ books' = Append(books, [present |-> TRUE,
                               user_uid |-> pg_uuid(req[r].payload.user.uid),
                               title |-> "title-1"])
    /\ req' = [req EXCEPT ![r] = Respond(req[r], HTTP(201, "book"))]
    /\ UNCHANGED <<redis_client, now, users, tokens, redis, loggedOut, blacklisted, reviews>>

\* PATCH /books/{book_id}: lookup, 404, the owner test, services.update_book.
\* The lookup and the write are separate awaits; with one request at a time
\* nothing runs between them.
UpdateBook(r) ==
    /\ At(r, "update_book")
    /\ LET book == get_book_by_id(req[r].target) IN
         IF book = NoBook
         THEN /\ req' = [req EXCEPT ![r] =
                           Respond(req[r], HTTP(404, "invalid book-id"))]
              /\ UNCHANGED books
         ELSE IF update_book_forbidden(book, req[r].payload)
         THEN /\ req' = [req EXCEPT ![r] = Respond(req[r],
                   HTTP(403, "only book owner is allowed to perform this"))]
              /\ UNCHANGED books
         ELSE /\ books' = [books EXCEPT ![req[r].target].title = "title-2"]
              /\ req' = [req EXCEPT ![r] = Respond(req[r], HTTP(200, "book"))]
    /\ UNCHANGED <<redis_client, now, users, tokens, redis, loggedOut, blacklisted, reviews>>

\* DELETE /books/{book_id}: lookup (None.user_uid raises), the owner test,
\* services.delete_book; the delete of a book that reviews point at fails
\* on reviews.book_uid (not nullable)
DeleteBook(r) ==
    /\ At(r, "delete_book")
    /\ LET book == get_book_by_id(req[r].target) IN
         IF book = NoBook
         THEN /\ req' = [req EXCEPT ![r] = Respond(req[r], ServerError)]
              /\ UNCHANGED books
         ELSE IF delete_book_forbidden(book, req[r].payload)
         THEN /\ req' = [req EXCEPT ![r] = Respond(req[r],
                   HTTP(403, "only book owner is allowed to perform this"))]
              /\ UNCHANGED books
         ELSE IF ReviewsOfBook(req[r].target) # {}
         THEN /\ req' = [req EXCEPT ![r] = Respond(req[r], ServerError)]
              /\ UNCHANGED books
         ELSE /\ books' = [books EXCEPT ![req[r].target] = GoneBook]
              /\ req' = [req EXCEPT ![r] =
                           Respond(req[r], HTTP(200, "book deleted successfully"))]
    /\ UNCHANGED <<redis_client, now, users, tokens, redis, loggedOut, blacklisted, reviews>>

\* POST /reviews/book/{book_uid}: create_review_for_book; the insert fails
\* on the foreign key when there is no such book
CreateReview(r) ==
    /\ At(r, "create_review")
    /\ IF get_book_by_id(req[r].target) = NoBook
       THEN /\ req' = [req EXCEPT ![r] = Respond(req[r], ServerError)]
            /\ UNCHANGED reviews
       ELSE /\ Len(reviews) < MaxReviews
            /\ reviews' = Append(reviews,
                  [present |-> TRUE, book_uid |-> req[r].target,
                   user_uid |-> pg_uuid(req[r].payload.user.uid),
                   review_text |-> "text-1"])
            /\ req' = [req EXCEPT ![r] = Respond(req[r], HTTP(200, "review"))]
    /\ UNCHANGED <<redis_client, now, users, tokens, redis, loggedOut, blacklisted, books>>

\* PATCH /reviews/update/{review_uid}: update_review_for_book
UpdateReview(r) ==
    /\ At(r, "update_review")
    /\ LET found == select_review(req[r].target, req[r].payload.user.uid) IN
         IF found = {}
         THEN /\ req' = [req EXCEPT ![r] = Respond(req[r],
                   HTTP(404, "Review not found or not authorized to update"))]
              /\ UNCHANGED reviews
         ELSE /\ reviews' = [reviews EXCEPT
                                ![req[r].target].review_text = "text-2"]
              /\ req' = [req EXCEPT ![r] = Respond(req[r], HTTP(200, "review"))]
    /\ UNCHANGED <<redis_client, now, users, tokens, redis, loggedOut, blacklisted, books>>

\* DELETE /reviews/delete/{review_uid}: delete_review_for_book
DeleteReview(r) ==
    /\ At(r, "delete_review")
    /\ LET found == select_review(req[r].target, req[r].payload.user.uid) IN
         IF found = {}
         THEN /\ req' = [req EXCEPT ![r] = Respond(req[r],
                   HTTP(404, "Review not found or not authorized to delete"))]
              /\ UNCHANGED reviews
         ELSE /\ reviews' = [reviews EXCEPT ![req[r].target] = GoneReview]
              /\ req' = [req EXCEPT ![r] =
                           Respond(req[r], HTTP(204, "Review deleted successfully"))]
    /\ UNCHANGED <<redis_client, now, users, tokens, redis, loggedOut, blacklisted, books>>

\* two accounts that signed up and logged in at time 0, as signup and login
\* leave them
Account(n, email, username) ==
    create_user([Idle EXCEPT !.email = email, !.username = username,
                             !.password = [text |-> "pw-one", chars |-> 8,
                                           bytes |-> 8]], UUID(n))

Session(user, jti) ==
    LET user_data == [uid |-> py_str(user.uid), email |-> user.email,
                      username |-> user.username] IN
      << create_tokens(user_data, AccessExpiry, FALSE, 0, jti).payload,
         create_tokens(user_data, RefreshExpiry, TRUE, 0, jti + 1).payload >>

ResourceInit ==
    /\ now = 0
    /\ users = {Account(1, "a@b.com", "alice"), Account(2, "c@d.com", "carol")}
    /\ tokens = Session(Account(1, "a@b.com", "alice"), 1)
                \o Session(Account(2, "c@d.com", "carol"), 3)
    /\ redis = <<>>
    /\ req = [r \in Reqs |-> Idle]
    /\ loggedOut = {}
    /\ blacklisted = {}
    /\ books = <<>>
    /\ reviews = <<>>
    /\ redis_client = "connected"

ResourceHandler(r) ==
    \/ ResourceGate(r)
    \/ GateRevoked(r)
    \/ ReviewRole(r)
    \/ ReviewGate2(r)
    \/ CreateBook(r)
    \/ UpdateBook(r)
    \/ DeleteBook(r)
    \/ CreateReview(r)
    \/ UpdateReview(r)
    \/ DeleteReview(r)
    \/ Deliver(r)

ResourceNext == Advance \/ ResourceHandler("r1")

ResourceSpec == ResourceInit /\ [][ResourceNext]_vars

\* ------------------------------------------------------- an admin account
\* No route writes the role column; an account becomes an admin by an
\* update made in the database.  Here carol's row has been given the role
\* before she logged in.
AdminInit ==
    /\ now = 0
    /\ users = {Account(1, "a@b.com", "alice"),
                [Account(2, "c@d.com", "carol") EXCEPT !.role = "admin"]}
    /\ tokens = Session(Account(1, "a@b.com", "alice"), 1)
                \o Session(Account(2, "c@d.com", "carol"), 3)
    /\ redis = <<>>
    /\ req = [r \in Reqs |-> Idle]
    /\ loggedOut = {}
    /\ blacklisted = {}
    /\ books = <<>>
    /\ reviews = <<>>
    /\ redis_client = "connected"

AdminSpec == AdminInit /\ [][ResourceNext]_vars

\* ------------------------------------------------- registry out of reach
\* The Redis server is a process of its own: the connection to it can be
\* lost and found again at any moment.
RedisConnection ==
    /\ Quiet
    /\ redis_client \in {"connected", "down"}
    /\ redis_client' = IF redis_client = "connected" THEN "down"
                       ELSE "connected"
    /\ UNCHANGED <<now, users, tokens, redis, req, loggedOut, blacklisted,
                   books, reviews>>

\* the application as started: with its lifespan (init_redis has run), or
\* without it (_redis is still None)
OutageInit ==
    /\ now = 0
    /\ users = {}
    /\ tokens = <<>>
    /\ redis = <<>>
    /\ req = [r \in Reqs |-> Idle]
    /\ loggedOut = {}
    /\ blacklisted = {}
    /\ books = <<>>
    /\ reviews = <<>>
    /\ redis_client \in {"connected", "None"}

OutageNext == SeqNext \/ RedisConnection

OutageSpec == OutageInit /\ [][OutageNext]_vars

\* ------------------------------------------- two deletes of one book
\* DELETE /books/{book_id} step by step, cut at its awaits, for requests
\* that run side by side.  Each request has a database session of its own
\* (get_session); a SELECT sees what has been committed when it runs.

\* alice's book, as create_book stored it
RaceBook == [present |-> TRUE,
             user_uid |-> pg_uuid(py_str(Account(1, "a@b.com", "alice").uid)),
             title |-> "title-1"]

RaceInit ==
    /\ now = 0
    /\ users = {Account(1, "a@b.com", "alice"), Account(2, "c@d.com", "carol")}
    /\ tokens = Session(Account(1, "a@b.com", "alice"), 1)
                \o Session(Account(2, "c@d.com", "carol"), 3)
    /\ redis = <<>>
    /\ req = [r \in Reqs |-> Idle]
    /\ loggedOut = {}
    /\ blacklisted = {}
    /\ books = <<RaceBook>>
    /\ reviews = <<>>
    /\ redis_client = "connected"

\* a client sends each of its requests before it has the answer to any: a
\* request arrives only while no answer has been received
DeleteGate(r) ==
    /\ Free(r)
    /\ \A o \in Reqs : req[o].pc # "over"
    /\ \E in \in BearerInputs, k \in 1 .. MaxBooks :
          \E code \in IF in.hasCreds THEN {401} ELSE {401, 403} :
             req' = [req EXCEPT ![r] =
                       TokenBearer_call(
                          Begin(r, "delete_book", [in EXCEPT !.target = k]),
                          now, code)]
    /\ UNCHANGED <<redis_client, now, users, tokens, redis, loggedOut,
                   blacklisted, books, reviews>>

\* delete_book, the route: await services.get_book_by_id, then the owner
\* test on book.user_uid (AttributeError when the book is None)
DeleteBookLookup(r) ==
    /\ At(r, "delete_book")
    /\ LET book == get_book_by_id(req[r].target) IN
         req' = [req EXCEPT ![r] =
            IF book = NoBook THEN Respond(req[r], ServerError)
            ELSE IF delete_book_forbidden(book, req[r].payload)
            THEN Respond(req[r],
                    HTTP(403, "only book owner is allowed to perform this"))
            ELSE [req[r] EXCEPT !.pc = "delete_find"]]
    /\ UNCHANGED <<redis_client, now, users, tokens, redis, loggedOut,
                   blacklisted, books, reviews>>

\* services.delete_book: its own await get_book_by_id; None -> False, which
\* the route answers with 404 "invalid book-id"
DeleteBookFind(r) ==
    /\ At(r, "delete_find")
    /\ req' = [req EXCEPT ![r] =
                 IF get_book_by_id(req[r].target) = NoBook
                 THEN Respond(req[r], HTTP(404, "invalid book-id"))
                 ELSE [req[r] EXCEPT !.pc = "delete_commit"]]
    /\ UNCHANGED <<redis_client, now, users, tokens, redis, loggedOut,
                   blacklisted, books, reviews>>

\* services.delete_book: session.delete(book), await session.commit(), True.
\* When the row has been deleted in the meantime the DELETE matches no row;
\* the ORM only warns about that (confirm_deleted_rows), the commit goes
\* through and the route reports success.
DeleteBookCommit(r) ==
    /\ At(r, "delete_commit")
    /\ IF get_book_by_id(req[r].target) # NoBook
          /\ ReviewsOfBook(req[r].target) # {}
       THEN /\ req' = [req EXCEPT ![r] = Respond(req[r], ServerError)]
            /\ UNCHANGED books
       ELSE /\ books' = [books EXCEPT ![req[r].target] = GoneBook]
            /\ req' = [req EXCEPT ![r] =
                         Respond(req[r], HTTP(200, "book deleted successfully"))]
    /\ UNCHANGED <<redis_client, now, users, tokens, redis, loggedOut,
                   blacklisted, reviews>>

\* the client has the response and keeps it; it sends nothing more
Received(r) ==
    /\ req[r].pc = "done"
    /\ req' = [req EXCEPT ![r].pc = "over"]
    /\ UNCHANGED <<redis_client, now, users, tokens, redis, loggedOut,
                   blacklisted, books, reviews>>

RaceHandler(r) ==
    \/ DeleteGate(r)
    \/ GateRevoked(r)
    \/ DeleteBookLookup(r)
    \/ DeleteBookFind(r)
    \/ DeleteBookCommit(r)
    \/ Received(r)

RaceNext == Advance \/ \E r \in Reqs : RaceHandler(r)

RaceSpec == RaceInit /\ [][RaceNext]_vars

\* ================================================================ claims
Done(r)  == req[r].pc = "done"
Revoked  == HTTP(403, "token revoked login again")
ExpTick(payload) == payload.exp * TicksPerSec

\* ---------------------------------------------------------------- C2
\* C2: once black_list_jti(jti, exp), called strictly before exp, has
\* returned, is_revoked(jti) is true at every time strictly before exp.
C2_RevokedUntilExp ==
    \A j \in blacklisted :
        now < ExpTick(tokens[j]) => is_revoked(redis, j, now)

\* a token revoked in its first second is still revoked in its last tick
C2_Witness ==
    \E j \in blacklisted :
        /\ redis[j] <= ExpTick(tokens[j]) + 1
        /\ now = ExpTick(tokens[j]) - 1
        /\ is_revoked(redis, j, now)

\* ---------------------------------------------------------------- C3
\* C3: whatever the interleaving of requests, a gate evaluation that reads
\* the registry for a jti after a logout wrote that jti, and before the
\* token's exp, answers 403 "token revoked".
C3_ReadAfterWriteRejects ==
    [][\A r \in Reqs :
          ( /\ req[r].pc = "gate_revoked"
            /\ req'[r].pc # "gate_revoked"
            /\ req[r].payload.jti \in DOMAIN redis
            /\ now < ExpTick(req[r].payload) )
          => (req'[r].pc = "done" /\ req'[r].resp = Revoked)]_vars

\* a request other than the logout is answered "revoked" while the other
\* slot is busy with a request of its own
C3_Witness ==
    \E r \in Reqs, o \in Reqs :
        /\ o # r /\ req[o].pc \notin {"idle", "done"}
        /\ Done(r) /\ req[r].op = "get_reviews"
        /\ req[r].resp = Revoked
        /\ now < ExpTick(req[r].payload)

\* ---------------------------------------------------------------- C10
\* C10: black_list_jti called when exp is at or before the current time
\* returns without writing to the registry.
C10_ExpiredRevokeNoWrite ==
    [][\A r \in Reqs :
          ( /\ req[r].pc = "logout_ttl"
            /\ req'[r].pc # "logout_ttl"
            /\ now >= ExpTick(req[r].payload) )
          => (redis' = redis /\ req'[r].pc = "done")]_vars

\* a logout that passed the gate just before exp and reached black_list_jti
\* at exp: 200, and no key for the jti
C10_Witness ==
    \E r \in Reqs :
        /\ Done(r) /\ req[r].op = "logout"
        /\ req[r].resp.status = 200
        /\ req[r].ttl <= 0
        /\ now >= ExpTick(req[r].payload)
        /\ req[r].payload.jti \notin DOMAIN redis

\* ------------------------------------------------------ gate evaluations
\* request r went through a bearer gate with a token some login issued
Gated(r) ==
    /\ req[r].op \in {"get_reviews", "logout", "refresh"}
    /\ req[r].hasCreds
    /\ req[r].token \in IssuedTokens

\* the token's kind is not the kind the route's bearer class requires
WrongKind(r) ==
    req[r].token.payload.refresh # (BearerOf(req[r].op) = "refresh")

WrongTokenKind(r) ==
    IF BearerOf(req[r].op) = "access" THEN HTTP(400, "access token required")
    ELSE HTTP(400, "refresh token requried")

\* the handler is past its bearer dependency: the gate let the token in
PastGate(r) ==
    req[r].pc \in {"curr_user", "logout_ttl", "logout_set", "refresh_body"}
    \/ (Done(r) /\ req[r].resp.status \in {200, 500})

\* ---------------------------------------------------------------- C4
\* C4 as stated: every token of the other kind is answered 400 by the gate.
C4_WrongKindAlways400 ==
    \A r \in Reqs :
        (Done(r) /\ Gated(r) /\ WrongKind(r)) => req[r].resp = WrongTokenKind(r)

\* C4, amended: a token of the other kind that decodes (valid signature,
\* not expired) and whose jti the registry does not hold is answered 400 by
\* the access-only and by the refresh-only gate; no token of the other kind
\* gets past a gate (an expired one is answered 401, a revoked one 403).
C4_WrongKindNeverAdmitted ==
    \A r \in Reqs :
        (Gated(r) /\ WrongKind(r)) =>
            /\ ~PastGate(r)
            /\ Done(r) => req[r].resp.status \in {400, 401, 403}
            /\ (Done(r) /\ req[r].payload # NoPayload /\ ~req[r].revoked)
                  => req[r].resp = WrongTokenKind(r)

\* a refresh token answered 400 by an access-only gate
C4_Witness ==
    \E r \in Reqs :
        /\ Done(r) /\ Gated(r) /\ WrongKind(r)
        /\ req[r].op = "get_reviews" /\ req[r].token.payload.refresh
        /\ req[r].resp = HTTP(400, "access token required")

\* ---------------------------------------------------------------- C5
\* C5 as stated: a decodable token of the wrong kind whose jti is in the
\* registry is answered 400 (kind), not 403 (revoked).
C5_KindBeforeRevocation ==
    \A r \in Reqs :
        (Done(r) /\ Gated(r) /\ WrongKind(r) /\ req[r].payload # NoPayload
           /\ req[r].revoked)
        => req[r].resp = WrongTokenKind(r)

\* C5, amended: the gate looks at the registry before it looks at the kind
\* flag; a decodable token of the wrong kind whose jti is in the registry is
\* answered 403 "token revoked", not 400.
C5_RevocationBeforeKind ==
    \A r \in Reqs :
        (Done(r) /\ Gated(r) /\ WrongKind(r) /\ req[r].payload # NoPayload
           /\ req[r].revoked)
        => req[r].resp = Revoked

\* a logged-out access token presented to GET /auth/refresh_token
C5_Witness ==
    \E r \in Reqs :
        /\ Done(r) /\ Gated(r) /\ WrongKind(r)
        /\ req[r].op = "refresh" /\ req[r].revoked
        /\ req[r].resp = Revoked

\* ---------------------------------------------------------------- C6
\* C6: for a decodable, non-revoked refresh token GET /auth/refresh_token
\* answers 200 with a new access token (refresh flag false, fresh jti) that
\* carries the refresh token's identity snapshot; the refresh token itself
\* is left as it was.
C6_RefreshIssuesAccess ==
    \A r \in Reqs :
        (Done(r) /\ Gated(r) /\ req[r].op = "refresh" /\ ~WrongKind(r)
           /\ req[r].payload # NoPayload /\ ~req[r].revoked)
        => /\ req[r].resp.status = 200
           /\ req[r].access_token \in IssuedTokens
           /\ ~req[r].access_token.payload.refresh
           /\ req[r].access_token.payload.jti # req[r].payload.jti
           /\ req[r].access_token.payload.user = req[r].payload.user
           /\ tokens[req[r].payload.jti] = req[r].payload
           /\ req[r].payload.jti \notin DOMAIN redis

\* ---------------------------------------------------------------- C7
\* a refresh token presented to GET /auth/refresh_token after its exp
ExpiredRefresh(r) ==
    /\ Done(r) /\ Gated(r) /\ req[r].op = "refresh"
    /\ req[r].token.payload.refresh
    /\ req[r].expiredAtCall

\* C7 as stated: the answer is 403 (expired), and no access token.
C7_ExpiredRefresh403 ==
    \A r \in Reqs :
        ExpiredRefresh(r) =>
            (req[r].resp.status = 403 /\ req[r].access_token = NoToken)

\* C7, amended: the answer is the gate's 401 "invalid token" (the route's
\* own 403 "token expired" is never reached), and no access token.
C7_ExpiredRefresh401 ==
    \A r \in Reqs :
        ExpiredRefresh(r) =>
            (req[r].resp = HTTP(401, "invalid token")
               /\ req[r].access_token = NoToken)

C7_Witness ==
    \E r \in Reqs :
        ExpiredRefresh(r) /\ req[r].resp = HTTP(401, "invalid token")

\* ---------------------------------------------------------------- C8
\* C8: no two rows of the users table have the same email.
C8_EmailUnique ==
    \A u \in users, v \in users : u.email = v.email => u = v

\* ---------------------------------------------------------------- C9
\* C9: while the registry holds a key for a jti, the time is strictly
\* before that token's exp.
C9_RecordNeverOutlivesToken ==
    \A j \in DOMAIN redis :
        redis_exists(redis, j, now) = 1 => now < ExpTick(tokens[j])

\* ---------------------------------------------------------------- C1
\* C1: one client, one request after the other, all before the access
\* token's exp: a login with the credentials given at signup returns an
\* access and a refresh token; GET /reviews/ with the access token is
\* admitted; after logout with that token has returned, the same request is
\* answered 403 "token revoked".
C1_SignupLoginLogout ==
    \A r \in Reqs :
        /\ (Done(r) /\ req[r].op = "login"
              /\ \E u \in users :
                    /\ u.email = req[r].email
                    /\ u.hashed_password = pwd_context_hash(req[r].password))
           => /\ req[r].resp.status = 200
              /\ req[r].access_token \in IssuedTokens
              /\ ~req[r].access_token.payload.refresh
              /\ req[r].refresh_token \in IssuedTokens
              /\ req[r].refresh_token.payload.refresh
              /\ req[r].access_token.payload.user.email = req[r].email
        /\ (Done(r) /\ Gated(r) /\ req[r].op = "get_reviews" /\ ~WrongKind(r)
              /\ now < ExpTick(req[r].token.payload))
           => IF req[r].token.payload.jti \in loggedOut
              THEN req[r].resp = Revoked
              ELSE req[r].resp.status = 200

\* the last step of the scenario: the logged-out token is turned away
C1_Witness ==
    \E r \in Reqs :
        /\ Done(r) /\ Gated(r) /\ req[r].op = "get_reviews"
        /\ req[r].token.payload.jti \in loggedOut
        /\ req[r].token.payload.user.email = "a@b.com"
        /\ now < ExpTick(req[r].token.payload)
        /\ req[r].resp = Revoked

\* ---------------------------------------------------------------- C11
\* C11: black_list_jti for a (jti, exp) pair whose key the registry already
\* holds leaves the registry as the first call left it: same key, same
\* marker, same instant of expiry.
C11_RevokeIdempotent ==
    [][\A r \in Reqs :
          ( /\ req[r].pc = "logout_set"
            /\ req'[r].pc # "logout_set"
            /\ is_revoked(redis, req[r].payload.jti, now) )
          => redis' = redis]_vars

\* ---------------------------------------------------------------- C12
\* C12 as stated: a token made by create_tokens(claims, duration, refresh)
\* at time t0 decodes to a payload with the same claims and refresh flag at
\* every time strictly before t0 + duration, and to no payload at every
\* time from t0 + duration on.  Stated for the two tokens of every login,
\* at the time of issue and at every tick within a second of t0 + duration.
C12_RoundTrip ==
    [][\A r \in Reqs :
          (req[r].pc = "login_issue" /\ req'[r].pc = "done") =>
             \A tk \in {req'[r].access_token, req'[r].refresh_token} :
                LET duration == IF tk.payload.refresh THEN RefreshExpiry
                                ELSE AccessExpiry
                    expires  == now + duration * TicksPerSec
                    claims   == [uid |-> py_str(req[r].user.uid),
                                 email |-> req[r].user.email,
                                 username |-> req[r].user.username] IN
                  \A t \in {now} \cup
                           ((expires - TicksPerSec) .. (expires + TicksPerSec)) :
                     IF t < expires
                     THEN /\ decode_token(tk, t) # NoPayload
                          /\ decode_token(tk, t).user = claims
                          /\ decode_token(tk, t).refresh = tk.payload.refresh
                     ELSE decode_token(tk, t) = NoPayload]_vars

\* C12, amended: the instant that separates the two cases is the token's
\* exp claim, t0 + duration truncated to whole seconds: the payload is
\* returned at every time strictly before exp, no payload at every time
\* from exp on.  Stated for the two tokens of every login, at the time of
\* issue and at every tick within a second of exp.
C12_RoundTripToExp ==
    [][\A r \in Reqs :
          (req[r].pc = "login_issue" /\ req'[r].pc = "done") =>
             \A tk \in {req'[r].access_token, req'[r].refresh_token} :
                LET duration == IF tk.payload.refresh THEN RefreshExpiry
                                ELSE AccessExpiry
                    exp      == (NowSec(now) + duration) * TicksPerSec
                    claims   == [uid |-> py_str(req[r].user.uid),
                                 email |-> req[r].user.email,
                                 username |-> req[r].user.username] IN
                  \A t \in {now} \cup
                           ((exp - TicksPerSec) .. (exp + TicksPerSec)) :
                     IF t < exp
                     THEN /\ decode_token(tk, t) # NoPayload
                          /\ decode_token(tk, t).user = claims
                          /\ decode_token(tk, t).refresh = tk.payload.refresh
                     ELSE decode_token(tk, t) = NoPayload]_vars

\* a token issued between two whole seconds: it decodes when issued and in
\* the tick before its exp, and no longer at its exp, which comes before
\* the duration has elapsed
C12_Witness ==
    \E r \in Reqs :
        /\ Done(r) /\ req[r].op = "login" /\ req[r].resp.status = 200
        /\ now % TicksPerSec # 0
        /\ LET tk == req[r].access_token IN
             /\ decode_token(tk, now) = tk.payload
             /\ decode_token(tk, ExpTick(tk.payload) - 1) = tk.payload
             /\ decode_token(tk, ExpTick(tk.payload)) = NoPayload
             /\ ExpTick(tk.payload) < now + AccessExpiry * TicksPerSec

\* ---------------------------------------------------------------- C13
\* C13: a schema-valid login whose email has no row, and one whose email
\* has a row but whose secret does not match it, get the same answer:
\* 401 "invalid credentials", and no token.
C13_LoginFailuresAlike ==
    \A r \in Reqs :
        ( /\ Done(r) /\ req[r].op = "login"
          /\ UserLogin_valid(req[r].password)
          /\ \A u \in UsersByEmail(req[r].email) :
                ~pwd_context_verify(req[r].password, u.hashed_password) )
        => /\ req[r].resp = HTTP(401, "invalid credentials")
           /\ req[r].access_token = NoToken
           /\ req[r].refresh_token = NoToken

\* ---------------------------------------------------------------- C14
\* C14: a login answered 200 has signed exactly two tokens, the last two of
\* all tokens signed: an access token (refresh false, 15 minutes) and a
\* refresh token (refresh true, 7 days); both carry uid, email and username
\* of the row that matches the login; the refresh token expires strictly
\* later; their jti differ from each other and from every earlier jti.
C14_LoginIssuesPair ==
    \A r \in Reqs :
        (Done(r) /\ req[r].op = "login" /\ req[r].resp.status = 200) =>
            LET a == req[r].access_token.payload
                f == req[r].refresh_token.payload
                n == Len(tokens) IN
              /\ req[r].access_token.key = JWT_SECRET_KEY
              /\ req[r].refresh_token.key = JWT_SECRET_KEY
              /\ ~a.refresh /\ a.exp = NowSec(now) + AccessExpiry
              /\ f.refresh /\ f.exp = NowSec(now) + RefreshExpiry
              /\ a.user = f.user
              /\ \E u \in users :
                    /\ u.email = req[r].email
                    /\ pwd_context_verify(req[r].password, u.hashed_password)
                    /\ a.user = [uid |-> py_str(u.uid), email |-> u.email,
                                 username |-> u.username]
              /\ f.exp > a.exp
              /\ a.jti # f.jti
              /\ n >= 2 /\ tokens[n - 1] = a /\ tokens[n] = f
              /\ \A i \in 1 .. (n - 2) : tokens[i].jti \notin {a.jti, f.jti}

\* a login has just returned its pair of tokens
C14_Witness ==
    \E r \in Reqs :
        /\ Done(r) /\ req[r].op = "login" /\ req[r].resp.status = 200
        /\ req[r].access_token # NoToken /\ req[r].refresh_token # NoToken
        /\ req[r].refresh_token.payload.exp > req[r].access_token.payload.exp

\* ---------------------------------------------------------------- C18
\* C18: a schema-valid signup whose email a row of the users table already
\* has is answered 403 "user with email already exists" and the table is
\* left as it was.
C18_DuplicateEmailRejected ==
    [][\A r \in Reqs :
          ( /\ req[r].pc = "idle" /\ req'[r].op = "signup"
            /\ UserCreate_valid(req'[r].password)
            /\ UsersByEmail(req'[r].email) # {} )
          => /\ req'[r].pc = "done"
             /\ req'[r].resp = HTTP(403, "user with email already exists")
             /\ users' = users]_vars

\* ---------------------------------------------------------------- C19
TooLong == HTTP(400, "password too long for bcrypt (max 72 bytes)")

\* C19 as stated: every signup with a secret of more than 72 bytes is
\* answered 400.
C19_TooLongAlways400 ==
    \A r \in Reqs :
        (Done(r) /\ req[r].op = "signup"
           /\ req[r].password.bytes > BcryptMaxBytes)
        => req[r].resp = TooLong

\* C19, amended: a signup with a secret of more than 72 bytes never adds a
\* row.  It is answered 400 exactly when it gets as far as hashing: the
\* body passed the schema (8 to 30 characters) and the lookup found no row
\* with the email.  More than 30 characters are answered 422 by the schema;
\* an email that has a row is answered 403 (500 when several rows have it)
\* before the secret is looked at.
C19_TooLongNeverStored ==
    [][\A r \in Reqs :
          ( /\ req[r].pc # "done" /\ req'[r].pc = "done"
            /\ req'[r].op = "signup"
            /\ req'[r].password.bytes > BcryptMaxBytes )
          => /\ users' = users
             /\ req'[r].resp.status \in {400, 403, 422, 500}
             /\ (req[r].pc = "signup_create") <=> (req'[r].resp = TooLong)
             /\ ~UserCreate_valid(req'[r].password)
                   <=> (req'[r].resp = Unprocessable)
             /\ (UserCreate_valid(req'[r].password) /\ users = {})
                   => req'[r].resp = TooLong]_vars

\* a secret of 30 characters and 90 bytes is answered 400
C19_Witness ==
    \E r \in Reqs :
        /\ Done(r) /\ req[r].op = "signup"
        /\ req[r].password.bytes > BcryptMaxBytes
        /\ req[r].password.chars <= 30
        /\ req[r].resp = TooLong

\* --------------------------------------------------------- role gate
GateOps   == {"get_reviews", "logout", "refresh"}
Forbidden == HTTP(403, "you are not authorized")

\* ---------------------------------------------------------------- C15
\* C15: when a request to the role-gated route has passed the bearer gate,
\* it is admitted (the route body runs, 200) if the row fetched for the
\* token's uid has a role in the allowed list, and is answered 403 "you are
\* not authorized" in every other case.
C15_RoleGate ==
    [][\A r \in Reqs :
          (req[r].pc = "curr_user" /\ req'[r].pc = "done") =>
             IF \E u \in UsersByUid(req[r].payload.user.uid) :
                   u.role \in {"user", "admin"}
             THEN req'[r].resp = HTTP(200, "reviews")
             ELSE req'[r].resp = Forbidden]_vars

\* ---------------------------------------------------------------- C16
\* C16: the status of every rejection by the gate is the one the taxonomy
\* gives its reason: a token that is malformed, badly signed or expired is
\* answered 401; a decodable token whose jti the registry holds 403; a
\* decodable, non-revoked token of the wrong kind 400; a role outside the
\* allowed list 403.
C16_RejectionStatus ==
    \A r \in Reqs :
        (Done(r) /\ req[r].op \in GateOps /\ req[r].hasCreds) =>
            /\ (req[r].token.key # JWT_SECRET_KEY \/ req[r].expiredAtCall)
                  => req[r].resp = HTTP(401, "invalid token")
            /\ (req[r].payload # NoPayload /\ req[r].revoked)
                  => req[r].resp = Revoked
            /\ (req[r].payload # NoPayload /\ ~req[r].revoked /\ WrongKind(r))
                  => req[r].resp = WrongTokenKind(r)
            /\ ( /\ req[r].payload # NoPayload /\ ~req[r].revoked
                 /\ ~WrongKind(r) /\ req[r].op = "get_reviews"
                 /\ \E u \in UsersByUid(req[r].payload.user.uid) :
                       u.role \notin {"user", "admin"} )
                  => req[r].resp = Forbidden

\* a request whose token is in order is turned away for its role
C16_Witness ==
    \E r \in Reqs :
        /\ Done(r) /\ req[r].op = "get_reviews" /\ req[r].hasCreds
        /\ req[r].payload # NoPayload /\ ~req[r].revoked /\ ~WrongKind(r)
        /\ \E u \in UsersByUid(req[r].payload.user.uid) : u.role = "guest"
        /\ req[r].resp = Forbidden

\* ---------------------------------------------------------------- C17
\* the bearer gate let the token in and, on the role-gated route, the role
\* check passed
Admitted(r) ==
    /\ req[r].payload # NoPayload /\ ~req[r].revoked /\ ~WrongKind(r)
    /\ req[r].op = "get_reviews" => req[r].resp = HTTP(200, "reviews")

Rejections(r) ==
    { HTTP(401, "Not authenticated"), HTTP(403, "Not authenticated"),
      HTTP(401, "invalid token"), WrongTokenKind(r), Revoked, Forbidden }

\* C17: every gate evaluation ends Admitted or Rejected with one of the
\* reasons Unauthenticated, InvalidToken, WrongTokenKind, Revoked,
\* Forbidden; none ends in a server error.
C17_GateTerminalStates ==
    \A r \in Reqs :
        (Done(r) /\ req[r].op \in GateOps) =>
            (Admitted(r) \/ req[r].resp \in Rejections(r))

\* ---------------------------------------------------------------- C20
\* the account a request speaks for: the uid in the token it presents
Caller(q) == pg_uuid(q.token.payload.user.uid)

\* request q asks to change or delete a book or a review that exists and
\* that the account it speaks for does not own
OnOthers(q) ==
    /\ q.hasCreds /\ q.token \in IssuedTokens
    /\ \/ /\ q.op \in {"update_book", "delete_book"}
          /\ get_book_by_id(q.target) # NoBook
          /\ get_book_by_id(q.target).user_uid # Caller(q)
       \/ /\ q.op \in {"update_review", "delete_review"}
          /\ q.target \in DOMAIN reviews /\ reviews[q.target].present
          /\ reviews[q.target].user_uid # Caller(q)

\* C20: every request of an account to update or delete a book or a review
\* of another account ends with a rejection and with both tables as they
\* were; and no step changes or deletes a book or a review except a request
\* that carries its owner's token.  (No account is an admin here, and the
\* code gives an admin nothing more.)
C20_OnlyOwnerWrites ==
    [][/\ \A r \in Reqs :
            (req[r].pc # "done" /\ req'[r].pc = "done" /\ OnOthers(req'[r]))
            => /\ req'[r].resp.status \notin {200, 201, 204}
               /\ books' = books /\ reviews' = reviews
       /\ \A i \in DOMAIN books :
            books'[i] # books[i] =>
               \E r \in Reqs : /\ req[r].op \in {"update_book", "delete_book"}
                               /\ req[r].target = i
                               /\ Caller(req[r]) = books[i].user_uid
       /\ \A i \in DOMAIN reviews :
            reviews'[i] # reviews[i] =>
               \E r \in Reqs : /\ req[r].op \in {"update_review", "delete_review"}
                               /\ req[r].target = i
                               /\ Caller(req[r]) = reviews[i].user_uid]_vars

\* carol's, unexpired and of the right kind, token asks to delete alice's
\* review and is turned away; the review is still there
C20_Witness ==
    \E r \in Reqs :
        /\ Done(r) /\ req[r].op = "delete_review" /\ OnOthers(req[r])
        /\ req[r].payload # NoPayload /\ ~req[r].token.payload.refresh
        /\ req[r].resp =
              HTTP(404, "Review not found or not authorized to delete")
        /\ reviews[req[r].target].present

\* ---------------------------------------------------------------- C21
\* the book a request names exists and belongs to the account the request
\* speaks for
OnOwnBook(q) ==
    /\ get_book_by_id(q.target) # NoBook
    /\ get_book_by_id(q.target).user_uid = Caller(q)

\* C21: an update or a delete of an existing book, asked by the book's
\* owner with an unexpired, non-revoked access token (the request is past
\* the gate), is carried out: the update is applied and answered 200 with
\* the book, the delete removes the book and is answered 200.
C21_OwnerWriteCarriedOut ==
    [][\A r \in Reqs :
          ( /\ req[r].pc \in {"update_book", "delete_book"}
            /\ req'[r].pc = "done"
            /\ OnOwnBook(req[r]) )
          => IF req[r].op = "update_book"
             THEN /\ req'[r].resp = HTTP(200, "book")
                  /\ books'[req[r].target].title = "title-2"
             ELSE /\ req'[r].resp = HTTP(200, "book deleted successfully")
                  /\ ~books'[req[r].target].present]_vars

\* ---------------------------------------------------------------- C29
\* C29: a delete request, past the gate, for a book id that matches no book
\* is answered 404 "invalid book-id" and leaves the store as it was.
C29_DeleteUnknown404 ==
    [][\A r \in Reqs :
          ( /\ req[r].pc = "delete_book"
            /\ req'[r].pc = "done"
            /\ get_book_by_id(req[r].target) = NoBook )
          => /\ req'[r].resp = HTTP(404, "invalid book-id")
             /\ books' = books /\ reviews' = reviews]_vars

\* ---------------------------------------------------------------- C22
\* the account a request speaks for has the role admin
ByAdmin(q) == \E u \in users : u.uid = Caller(q) /\ u.role = "admin"

\* C22: a request of an admin, past the gate, to update or delete a book or
\* a review that another account owns is carried out: it is answered with
\* success and the row is changed or removed.
C22_AdminWritesOthers ==
    [][\A r \in Reqs :
          ( /\ req[r].pc \in {"update_book", "delete_book",
                              "update_review", "delete_review"}
            /\ req'[r].pc = "done"
            /\ OnOthers(req[r]) /\ ByAdmin(req[r]) )
          => /\ req'[r].resp.status \in {200, 204}
             /\ (books' # books \/ reviews' # reviews)]_vars

\* ---------------------------------------------------------------- C23
\* C23: in every state reached through the API from an empty users table,
\* every row has role "user": signup gives the default role whatever the
\* body contains, and no operation writes the role of a stored row.
C23_RoleAlwaysUser ==
    \A u \in users : u.role = "user"

\* a signup whose body asked for the role admin has created its row
C23_Witness ==
    \E r \in Reqs :
        /\ Done(r) /\ req[r].op = "signup" /\ req[r].role = "admin"
        /\ req[r].resp = HTTP(201, "created")
        /\ \E u \in users : u.email = req[r].email /\ u.role = "user"

\* ---------------------------------------------------------------- C24
\* a step writes no key of the registry but the jti of the access token that
\* a logout request presented, and removes none
OnlyLogoutWrites ==
    /\ DOMAIN redis \subseteq DOMAIN redis'
    /\ \A k \in DOMAIN redis' :
          (k \notin DOMAIN redis \/ redis'[k] # redis[k]) =>
             \E r \in Reqs :
                /\ req[r].pc = "logout_set" /\ req'[r].pc = "done"
                /\ req[r].op = "logout"
                /\ req[r].token.payload.jti = k
                /\ ~req[r].token.payload.refresh

\* the registry check of a gate lets in every token that no logout wrote,
\* and a refresh token at the refresh route in any case
OthersAdmitted ==
    \A r \in Reqs :
        (req[r].pc = "gate_revoked" /\ req'[r] # req[r]) =>
           /\ (req[r].payload.jti \notin DOMAIN redis)
                 => (~req'[r].revoked /\ req'[r].resp # Revoked)
           /\ (req[r].payload.refresh /\ req[r].op = "refresh")
                 => req'[r].pc = "refresh_body"

\* the statement as given: every logout that passed the gate writes its key
C24_LogoutWritesOneKey ==
    [][/\ OnlyLogoutWrites
       /\ OthersAdmitted
       /\ \A r \in Reqs :
            (req[r].pc = "logout_ttl" /\ req'[r] # req[r])
            => req'[r].pc = "logout_set"]_vars

\* C24: a logout writes at most one key to the registry, the jti of the
\* access token it was sent with (none when black_list_jti finds ttl <= 0);
\* every other key is left as it was, so the refresh token of the same
\* login and every other token pass the registry check of their gate
\* afterwards.
C24_LogoutWritesOnlyItsJti ==
    [][OnlyLogoutWrites /\ OthersAdmitted]_vars

\* the refresh token is past its gate while the access token issued with it
\* is logged out and revoked
C24_Witness ==
    \E r \in Reqs :
        /\ req[r].pc = "refresh_body" /\ req[r].payload.refresh
        /\ (req[r].payload.jti - 1) \in loggedOut
        /\ is_revoked(redis, req[r].payload.jti - 1, now)
        /\ DOMAIN redis = {req[r].payload.jti - 1}

\* ---------------------------------------------------------------- C25
\* request r takes a step of its gate: TokenBearer.__call__ up to the decode,
\* its registry read and kind check, or get_curr_user with RoleChecker
GateStep(r) ==
    /\ req'[r] # req[r]
    /\ \/ req[r].pc = "idle" /\ req'[r].op \in GateOps
       \/ req[r].pc \in {"gate_revoked", "curr_user"}

\* C25: a gate evaluation, whether it admits or rejects, leaves the
\* revocation registry and the users table as they were (and issues no
\* token): all it does with the registry is read it.
C25_GateReadsOnly ==
    [][\A r \in Reqs :
          GateStep(r) => (redis' = redis /\ users' = users /\ tokens' = tokens)]_vars

\* a gate has read the key of a revoked token and rejected; the key and the
\* user's row are where they were
C25_Witness ==
    \E r \in Reqs :
        /\ Done(r) /\ req[r].op = "get_reviews" /\ req[r].resp = Revoked
        /\ req[r].payload.jti \in DOMAIN redis
        /\ redis[req[r].payload.jti] <= ExpTick(req[r].payload) + TicksPerSec
        /\ UsersByUid(req[r].payload.user.uid) # {}

\* ---------------------------------------------------------------- C26
\* C26: a request to a gated route that carries no bearer credential is
\* answered "Not authenticated" by the gate's first step (HTTPBearer; 401,
\* or 403 in older FastAPI releases): it is over before any token is
\* decoded and before the registry is read.
C26_NoCredentialFirst ==
    \A r \in Reqs :
        (req[r].pc # "idle" /\ req[r].op \in GateOps /\ ~req[r].hasCreds) =>
            /\ Done(r)
            /\ req[r].resp.detail = "Not authenticated"
            /\ req[r].resp.status \in {401, 403}
            /\ req[r].payload = NoPayload /\ ~req[r].expiredAtCall
            /\ ~req[r].revoked

\* a logout without an Authorization header has been answered, while the
\* registry holds a key and a token is in circulation
C26_Witness ==
    \E r \in Reqs :
        /\ Done(r) /\ req[r].op = "logout" /\ ~req[r].hasCreds
        /\ req[r].resp.detail = "Not authenticated"
        /\ tokens # <<>> /\ DOMAIN redis # {}

\* ---------------------------------------------------------------- C27
\* request r, served alone, ends in this step, and it is a logout sent with
\* an issued token whose jti an earlier logout has written to the registry
SecondLogoutEnds(r) ==
    /\ req[r].pc # "done" /\ req'[r].pc = "done"
    /\ req'[r].op = "logout" /\ req'[r].hasCreds
    /\ req'[r].token \in IssuedTokens
    /\ req'[r].token.payload.jti \in DOMAIN redis

\* the statement as given: the second logout is always answered 403 "token
\* revoked" and writes nothing
C27_SecondLogoutRevoked ==
    [][\A r \in Reqs :
          SecondLogoutEnds(r) =>
             /\ req'[r].resp = Revoked
             /\ req[r].pc # "logout_set" /\ redis' = redis]_vars

\* C27: a logout sent with an access token that an earlier logout already
\* revoked never writes to the registry.  It is rejected by the gate with
\* 403 "token revoked" as long as the token has not expired; from the
\* token's exp on it is answered 401 "invalid token" (the decode fails),
\* 403 (the key outlives the token by a fraction of a second) or 200 (the
\* token expired between the decode and the registry read, the key is gone
\* and black_list_jti finds ttl <= 0).
C27_SecondLogoutNoWrite ==
    [][\A r \in Reqs :
          SecondLogoutEnds(r) =>
             /\ req[r].pc # "logout_set" /\ redis' = redis
             /\ now < ExpTick(req'[r].token.payload) => req'[r].resp = Revoked
             /\ req'[r].resp \in {Revoked, HTTP(401, "invalid token"),
                                  HTTP(200, "logged out successfully")}]_vars

\* the token was logged out, and a later logout with it has been rejected
\* before its exp
C27_Witness ==
    \E r \in Reqs :
        /\ Done(r) /\ req[r].op = "logout" /\ req[r].resp = Revoked
        /\ req[r].payload.jti \in loggedOut
        /\ now < ExpTick(req[r].payload)

\* ---------------------------------------------------------------- C28
\* C28: the gate fails closed.  When the registry read of a gate gives no
\* answer (the client was never initialised, or the call raises), the
\* request ends there with a server error: it is not admitted, no route
\* body or service runs, nothing is written.
C28_GateFailsClosed ==
    [][\A r \in Reqs :
          ( /\ req[r].pc = "gate_revoked" /\ req'[r] # req[r]
            /\ redis_client # "connected" )
          => /\ req'[r].pc = "done" /\ req'[r].resp = ServerError
             /\ redis' = redis /\ users' = users /\ tokens' = tokens
             /\ loggedOut' = loggedOut]_vars

\* an unexpired access token of the right kind at a route it may use, and
\* the registry not initialised: the request has ended in a server error
C28_Witness ==
    \E r \in Reqs :
        /\ Done(r) /\ req[r].op = "get_reviews" /\ redis_client = "None"
        /\ req[r].payload # NoPayload /\ ~req[r].payload.refresh
        /\ req[r].resp = ServerError

\* ---------------------------------------------------------------- C30
\* request q was a delete of alice's book, sent with an access token of
\* alice that its gate let through
OwnerDelete(q) ==
    /\ q.pc = "over" /\ q.op = "delete_book" /\ q.target = 1
    /\ q.payload # NoPayload /\ ~q.payload.refresh
    /\ Caller(q) = RaceBook.user_uid

\* C30: when the owner sends two delete requests for the same book
\* concurrently, then however their steps interleave, once both are
\* answered the book is gone, one request was answered 200 "book deleted
\* successfully" and the other 404 "invalid book-id".
C30_ConcurrentDeleteOnce ==
    \A r \in Reqs, o \in Reqs :
        (r # o /\ OwnerDelete(req[r]) /\ OwnerDelete(req[o])) =>
            /\ ~books[1].present
            /\ {req[r].resp, req[o].resp} =
                   { HTTP(200, "book deleted successfully"),
                     HTTP(404, "invalid book-id") }

====
